---- MODULE Spec2Model ----
(***************************************************************************)
(* Model of ib_trading_system: the order partitioner (utils_order.py), the *)
(* execution gate (utils_executionTime.py) and the orchestrator            *)
(* Trading.run (trading.py) with the broker adapter sessions it calls.     *)
(*                                                                         *)
(* A DataFrame is a sequence of rows in positional order; each row keeps   *)
(* its index label in the field Index.  Wall-clock time is an integer      *)
(* number of seconds since 00:00:00 of day 0 of the local calendar.        *)
(***************************************************************************)
EXTENDS Integers, Sequences, FiniteSets, TLC

(***************************************************************************)
(* Bounds of the model.                                                    *)
(***************************************************************************)
\* longest batch given to the partitioner on its own
MaxLen == 3
\* longest batch given to a run of the orchestrator
MaxRunLen == 2
\* last calendar day on which the gate is exercised on its own
MaxDay == 1
\* seconds a slow broker session takes from connect to disconnect
SlowSession == 15
\* polls the completion wait is followed for
MaxPolls == 2
\* executions the broker reports to the request_callback session
MaxExecs == 1
\* adapter sessions made one after the other on the shared root logger
MaxSessions == 3
\* accounts the broker manages for a request_accountUpdates session
MaxAccounts == 2
\* account values the broker sends to a request_accountUpdates session
MaxValues == 2
\* longest frame of executions, and of commissions, given to the functions
\* of the reconciliation on their own
MaxRows == 2

Actions == {"BUY", "SELL"}
Symbols == {"AAPL", "MSFT"}
SecTypes == {"STK", "OPT"}

VARIABLES
    orders,          \* Trading.orders / the argument of separate_orders
    firstRound,      \* first frame returned by separate_orders
    secondRound,     \* second frame returned by separate_orders
    pc,              \* position of the caller
    now,             \* the local wall clock, datetime.now()
    second_round_orders_sending_time,  \* "HH:MM" as a sequence of characters
    machine_computation_time_protect,  \* margin of a direct gate call
    error,           \* exception that left run(), or "none"
    firstRound_orderInfo_list,
    secondRound_ordersInfo_list,
    placed_orders_firstRound,
    placed_orders_secondRound,
    app,             \* adapter session: "none", "connected" or "timer"
    record,          \* App.record of the place_order session
    openOrder_record,\* App.openOrder_record of the open-orders session
    polls,           \* iterations of the current completion wait
    book,            \* working orders held by the broker
    nextValidId,     \* next order id the broker hands out
    sent,            \* history: every placeOrder message, with its time
    run_started_at,  \* history: the clock when run() was entered
    phases,          \* history: the positions run() has been at, in order
    sessions,        \* history: every adapter session opened, with the
                     \* caller's position and the size of its result
    exec_list,       \* App.exec_list of the request_callback session
    commission_list, \* App.commission_list of that session
    executions_filtered,  \* the frames filter_valid_callback returns
    commissions_filtered, \* to run()
    arg_valid_clientId,  \* valid_clientId of a direct call of
                     \* filter_valid_callback or of
                     \* group_execution_and_commission_by_date: << >> for
                     \* None, <<c>> for the client id c
    arg_valid_orderIds,  \* valid_orderIds of a direct call of
                     \* filter_valid_callback
    datewise_dict,   \* the mapping group_execution_and_commission_by_date
                     \* returns: date |-> <<executions, commissions>>
    main_executions, \* executions and commissions of main(), or the frames
    main_commissions,\* a direct call of lastest_date_callback returns
    root_handlers,   \* logging.getLogger().handlers, the list of the root
                     \* logger every adapter App logs to
    closed_handlers, \* history: the handlers closed, each with the session
                     \* whose stop() closed it
    stop_thread,     \* per adapter session, where it and its stop() are
    loop_index,      \* per session, the position of the list iterator of
                     \* the for loop of close_logger
    accountsList,    \* App.accountsList of request_accountUpdates
    accountName_index,  \* App._accountName_index
    inbox,           \* messages of the broker the session has not yet
                     \* dispatched to its callbacks
    requested,       \* history: the accounts of reqAccountUpdates(True, .)
    ended,           \* history: the accounts of the accountDownloadEnd
                     \* callbacks dispatched
    timers,          \* history: the accounts at whose accountDownloadEnd
                     \* a disconnect timer was started
    account_app,     \* the request_accountUpdates session: "connected",
                     \* "timer" or "none"
    updateAccountValue_list  \* App.updateAccountValue_list

vars == <<orders, firstRound, secondRound, pc, now,
          second_round_orders_sending_time, machine_computation_time_protect,
          error, firstRound_orderInfo_list, secondRound_ordersInfo_list,
          placed_orders_firstRound, placed_orders_secondRound, app, record,
          openOrder_record, polls, book, nextValidId, sent, run_started_at,
          phases, sessions, exec_list, commission_list, executions_filtered,
          commissions_filtered, arg_valid_clientId, arg_valid_orderIds,
          datewise_dict, main_executions, main_commissions, root_handlers,
          closed_handlers, stop_thread, loop_index, accountsList,
          accountName_index, inbox, requested, ended, timers, account_app,
          updateAccountValue_list>>

loggerVars == <<root_handlers, closed_handlers, stop_thread, loop_index>>

accountVars == <<accountsList, accountName_index, inbox, requested, ended,
                 timers, account_app, updateAccountValue_list>>

adapterVars == <<loggerVars, accountVars>>

partitionVars == <<orders, firstRound, secondRound>>

gateVars == <<now, second_round_orders_sending_time,
              machine_computation_time_protect>>

runVars == <<error, firstRound_orderInfo_list, secondRound_ordersInfo_list,
             placed_orders_firstRound, placed_orders_secondRound, app, record,
             openOrder_record, polls, book, nextValidId, sent, run_started_at,
             phases, sessions, exec_list, commission_list,
             executions_filtered, commissions_filtered, arg_valid_clientId,
             arg_valid_orderIds, datewise_dict, main_executions,
             main_commissions>>

reconcileVars == <<exec_list, commission_list, executions_filtered,
                   commissions_filtered>>

callbackVars == <<arg_valid_clientId, arg_valid_orderIds, datewise_dict,
                  main_executions, main_commissions>>

orchestratorVars == <<error, firstRound_orderInfo_list,
                      secondRound_ordersInfo_list, placed_orders_firstRound,
                      placed_orders_secondRound, app, record,
                      openOrder_record, polls, book, nextValidId, sent,
                      run_started_at, sessions>>

(***************************************************************************)
(* DataFrames of orders.                                                   *)
(***************************************************************************)
OrderRows == [Action : Actions, Symbol : Symbols, SecType : SecTypes]

\* a frame built from a list of rows gets the default RangeIndex 0..n-1
DataFrame(rows) ==
    [i \in 1..Len(rows) |->
        [Index |-> i - 1, Action |-> rows[i].Action,
         Symbol |-> rows[i].Symbol, SecType |-> rows[i].SecType]]

RowSeqs(n) == UNION {[1..m -> OrderRows] : m \in 0..n}

\* DataFrame.reset_index(drop=True): relabel the rows 0..n-1, keep the data
reset_index(df) ==
    [i \in 1..Len(df) |-> [df[i] EXCEPT !.Index = i - 1]]

\* orders[orders['Action'] == 'BUY']
buy_orders_df(df) == SelectSeq(df, LAMBDA r : r.Action = "BUY")

\* orders[orders['Action'] == 'SELL']
sell_orders_df(df) == SelectSeq(df, LAMBDA r : r.Action = "SELL")

\* the values np.isin tests against: the array of the SELL (Symbol, SecType)
\* tuples, which np.isin flattens to one collection of cell values
sell_orders_equity_features_tuples(df) ==
    {sell_orders_df(df)[i].Symbol : i \in 1..Len(sell_orders_df(df))}
      \cup {sell_orders_df(df)[i].SecType : i \in 1..Len(sell_orders_df(df))}

\* np.isin(buy_tuples, sell_tuples).all(axis=1) for one BUY row: np.isin is
\* element-wise, so each cell of the row is looked up on its own
is_duplicate(df, r) ==
    /\ r.Symbol \in sell_orders_equity_features_tuples(df)
    /\ r.SecType \in sell_orders_equity_features_tuples(df)

\* mutant: the mask of the crossing BUY orders is inverted
cross_buy_orders_df_inverted(df) ==
    SelectSeq(buy_orders_df(df), LAMBDA r : ~is_duplicate(df, r))

\* buy_orders_df.iloc[is_duplicate, :]
cross_buy_orders_df(df) ==
    SelectSeq(buy_orders_df(df), LAMBDA r : is_duplicate(df, r))

\* mutant: the mask of the non-crossing BUY orders is not negated
not_cross_buy_orders_df_unnegated(df) ==
    SelectSeq(buy_orders_df(df), LAMBDA r : is_duplicate(df, r))

\* buy_orders_df.iloc[~is_duplicate, :]
not_cross_buy_orders_df(df) ==
    SelectSeq(buy_orders_df(df), LAMBDA r : ~is_duplicate(df, r))

\* mutant: a one-sided batch gives an empty round 1, as the comment of the
\* branch says
firstRound_orders_empty(df) ==
    IF Len(df) # 0
    THEN IF Len(buy_orders_df(df)) = 0 \/ Len(sell_orders_df(df)) = 0
         THEN << >>
         ELSE sell_orders_df(df) \o not_cross_buy_orders_df(df)
    ELSE df

\* mutant: the BUY orders are concatenated before the SELL orders
firstRound_orders_buys_first(df) ==
    IF Len(df) # 0
    THEN IF Len(buy_orders_df(df)) = 0 \/ Len(sell_orders_df(df)) = 0
         THEN df
         ELSE not_cross_buy_orders_df(df) \o sell_orders_df(df)
    ELSE df

\* firstRound_orders before the final reset_index
firstRound_orders(df) ==
    IF Len(df) # 0
    THEN IF Len(buy_orders_df(df)) = 0 \/ Len(sell_orders_df(df)) = 0
         THEN df
         ELSE sell_orders_df(df) \o not_cross_buy_orders_df(df)
    ELSE df

\* secondRound_orders before the final reset_index
secondRound_orders(df) ==
    IF Len(df) # 0
    THEN IF Len(buy_orders_df(df)) = 0 \/ Len(sell_orders_df(df)) = 0
         THEN << >>
         ELSE cross_buy_orders_df(df)
    ELSE df

separate_orders(df) ==
    <<reset_index(firstRound_orders(df)), reset_index(secondRound_orders(df))>>

(***************************************************************************)
(* The execution gate (utils_executionTime.py).                            *)
(***************************************************************************)
SecondsPerDay == 24 * 60 * 60

\* int() of one decimal digit
DigitValue(c) ==
    CASE c = "0" -> 0 [] c = "1" -> 1 [] c = "2" -> 2 [] c = "3" -> 3
      [] c = "4" -> 4 [] c = "5" -> 5 [] c = "6" -> 6 [] c = "7" -> 7
      [] c = "8" -> 8 [] c = "9" -> 9

\* int() of a string of decimal digits
RECURSIVE int(_)
int(str) ==
    IF Len(str) = 1 THEN DigitValue(str[1])
    ELSE 10 * int(SubSeq(str, 1, Len(str) - 1)) + DigitValue(str[Len(str)])

\* execution_time.split(":") of a string with one colon
split(str) ==
    LET colon == CHOOSE i \in 1..Len(str) : str[i] = ":"
    IN  <<SubSeq(str, 1, colon - 1), SubSeq(str, colon + 1, Len(str))>>

\* current_time.replace(hour=h, minute=m, second=0, microsecond=0): the date
\* of current_time is kept
parse_execution_time(current_time, execution_time) ==
    LET execution_hour == int(split(execution_time)[1])
        execution_minute == int(split(execution_time)[2])
    IN  (current_time \div SecondsPerDay) * SecondsPerDay
          + execution_hour * 60 * 60 + execution_minute * 60

\* both datetime.now() readings of one call are the clock reading
\* current_time
seconds_until_execution(current_time, execution_time) ==
    parse_execution_time(current_time, execution_time) - current_time

\* mutant: the margin is left out of the assert
is_time_expired_raises_no_margin(current_time, execution_time, protect) ==
    ~(seconds_until_execution(current_time, execution_time) > 0)

\* mutant: the assert accepts wait_seconds = 0
is_time_expired_raises_at_zero(current_time, execution_time, protect) ==
    ~(seconds_until_execution(current_time, execution_time) - protect >= 0)

\* TRUE when the assert of is_time_expired fails; the function returns None
\* otherwise
is_time_expired_raises(current_time, execution_time, protect) ==
    ~(seconds_until_execution(current_time, execution_time) - protect > 0)

\* mutant: no time is left to wait
gate_wait_seconds_none(current_time, execution_time) == 0

\* wait_seconds handed to time.sleep by execute_func_at_time
gate_wait_seconds(current_time, execution_time) ==
    seconds_until_execution(current_time, execution_time)

\* the clock reading at which time.sleep(secs) returns; a later wake-up is
\* counted in the duration of the adapter session that follows every sleep
time_sleep(current_time, secs) == current_time + secs

(***************************************************************************)
(* Initial values of the state a harness leaves alone.                     *)
(***************************************************************************)
IdleSessions ==
    /\ error = "none"
    /\ firstRound_orderInfo_list = << >>
    /\ secondRound_ordersInfo_list = << >>
    /\ placed_orders_firstRound = << >>
    /\ placed_orders_secondRound = << >>
    /\ app = "none"
    /\ record = << >>
    /\ openOrder_record = {}
    /\ polls = 0
    /\ nextValidId = 1
    /\ sent = << >>
    /\ run_started_at = now
    /\ phases = <<pc>>
    /\ sessions = << >>

\* the broker holds no working order
IdleOrchestrator ==
    /\ IdleSessions
    /\ book = {}

IdleCallback ==
    /\ arg_valid_clientId = << >>
    /\ arg_valid_orderIds = << >>
    /\ datewise_dict = << >>
    /\ main_executions = << >>
    /\ main_commissions = << >>

\* no adapter App has been made: the root logger has no handler
IdleLogger ==
    /\ root_handlers = << >>
    /\ closed_handlers = {}
    /\ stop_thread = << >>
    /\ loop_index = << >>

\* no request_accountUpdates session
IdleAccount ==
    /\ accountsList = << >>
    /\ accountName_index = -1
    /\ inbox = << >>
    /\ requested = << >>
    /\ ended = {}
    /\ timers = << >>
    /\ account_app = "none"
    /\ updateAccountValue_list = << >>

IdleAdapters == IdleLogger /\ IdleAccount

IdleRun ==
    /\ IdleOrchestrator
    /\ exec_list = << >>
    /\ commission_list = << >>
    /\ executions_filtered = << >>
    /\ commissions_filtered = << >>
    /\ IdleCallback

(***************************************************************************)
(* The partitioner applied to every batch of at most MaxLen orders.        *)
(***************************************************************************)
InitPartition ==
    /\ orders \in {DataFrame(rows) : rows \in RowSeqs(MaxLen)}
    /\ firstRound = << >>
    /\ secondRound = << >>
    /\ pc = "call"
    /\ now = 0
    /\ second_round_orders_sending_time = <<"1", "2", ":", "3", "7">>
    /\ machine_computation_time_protect = 60
    /\ IdleRun
    /\ IdleAdapters

Separate ==
    /\ pc = "call"
    /\ firstRound' = separate_orders(orders)[1]
    /\ secondRound' = separate_orders(orders)[2]
    /\ pc' = "returned"
    /\ UNCHANGED <<orders, gateVars, runVars>>
    /\ UNCHANGED adapterVars

NextPartition == Separate

SpecPartition == InitPartition /\ [][NextPartition]_vars

(***************************************************************************)
(* is_time_expired called on its own, at clock readings around each        *)
(* deadline on the days 0..MaxDay.                                         *)
(***************************************************************************)
Deadlines ==
    { <<"1", "2", ":", "0", "0">>, <<"0", "0", ":", "0", "0">>,
      <<"0", "0", ":", "0", "1">>, <<"2", "3", ":", "5", "9">>,
      <<"9", ":", "3", "0">>, <<"1", "2", ":", "3", "7">> }

Margins == {0, 1, 20, 60}

Offsets == {-7200, -61, -60, -59, -21, -20, -19, -10, -2, -1, 0, 1, 30, 7200}

GateClockReadings ==
    {t \in {parse_execution_time(day * SecondsPerDay, d) + off :
                day \in 0..MaxDay, d \in Deadlines, off \in Offsets} :
        t >= 0 /\ t < (MaxDay + 1) * SecondsPerDay}

InitGate ==
    /\ now \in GateClockReadings
    /\ second_round_orders_sending_time \in Deadlines
    /\ machine_computation_time_protect \in Margins
    /\ pc = "call"
    /\ orders = << >>
    /\ firstRound = << >>
    /\ secondRound = << >>
    /\ IdleRun
    /\ IdleAdapters

IsTimeExpired ==
    /\ pc = "call"
    /\ pc' = IF is_time_expired_raises(now, second_round_orders_sending_time,
                                       machine_computation_time_protect)
             THEN "AssertionError"
             ELSE "returned"
    /\ UNCHANGED <<partitionVars, gateVars, runVars>>
    /\ UNCHANGED adapterVars

NextGate == IsTimeExpired

SpecGate == InitGate /\ [][NextGate]_vars

(***************************************************************************)
(* The orchestrator Trading.run (trading.py) and the adapter sessions of   *)
(* apps/place_order.py and apps/request_openOrders.py.  An adapter call is *)
(* a session: main() connects, the broker's callbacks fill the session's   *)
(* record and start the disconnect timer, stop() disconnects and main()    *)
(* returns the record.                                                     *)
(***************************************************************************)
\* Trading.clientId as main.py sets it
clientId == 0

\* machine_computation_time_protect of the check at the start of run()
StartProtect == 20

\* machine_computation_time_protect of the gate before round 2
GateProtect == 1

\* time.sleep(3) between the round-1 submission and the first snapshot
SettleSleep == 3

\* check_freq of both completion waits
check_freq == 1

\* threading.Timer(3, self.stop) of every adapter session
DisconnectTimer == 3

\* seconds from connect to the return of main(): the timer at least
SessionSecs == {DisconnectTimer, SlowSession}

\* the lengths taken for a session opened at position p: run() reads the
\* clock for the last time in the gate of line 92, so the sessions after it
\* are given the length of the timer alone
SessionSecsAt(p) ==
    IF p \in {"place1", "probe"} THEN SessionSecs ELSE {DisconnectTimer}

\* second_round_orders_sending_time of main.py
ReleaseTimes == { <<"1", "2", ":", "3", "7">> }

\* run() is entered this many seconds after (before, if negative) the
\* release time of the day
StartOffsets == {-3600, -21, -20, 5}

\* mutant: the Tif column of the caller is left as it came
to_dict_caller_tif(df, tif) ==
    [i \in 1..Len(df) |->
        [Action |-> df[i].Action, Symbol |-> df[i].Symbol,
         SecType |-> df[i].SecType, Tif |-> df[i].Tif]]

\* firstRound_orders['Tif'] = [tif]*len(...) and to_dict(orient='records'):
\* one dict per row, the index label dropped
to_dict(df, tif) ==
    [i \in 1..Len(df) |->
        [Action |-> df[i].Action, Symbol |-> df[i].Symbol,
         SecType |-> df[i].SecType, Tif |-> tif]]

\* the list handed to place_order at the caller's position
orderInfo_list ==
    IF pc = "place1" THEN firstRound_orderInfo_list
    ELSE secondRound_ordersInfo_list

Round == IF pc = "place1" THEN 1 ELSE 2

\* mutant: the order id is not advanced between two orders
placed_one_id(list, nextorderId) ==
    [i \in 1..Len(list) |->
        [ClientId |-> clientId, OrderId |-> nextorderId,
         Action |-> list[i].Action, Symbol |-> list[i].Symbol,
         SecType |-> list[i].SecType, Tif |-> list[i].Tif]]

\* App.place_order: the i-th order is sent with id nextorderId + i
placed(list, nextorderId) ==
    [i \in 1..Len(list) |->
        [ClientId |-> clientId, OrderId |-> nextorderId + i - 1,
         Action |-> list[i].Action, Symbol |-> list[i].Symbol,
         SecType |-> list[i].SecType, Tif |-> list[i].Tif]]

\* mutant: a session is opened for an empty list too
main_without_session_never(list) == FALSE

\* place_order.main: TRUE when main returns an empty frame at once, without
\* an App, a connection or a session
main_without_session(list) == Len(list) = 0

\* mutant: the wait goes on after an empty snapshot and ends after another
flag_after_poll_inverted(open_orders) == Cardinality(open_orders) = 0

\* mutant: the flag is never cleared
flag_after_poll_stuck(open_orders) == TRUE

\* mutant: the wait ends after any snapshot
flag_after_poll_cleared(open_orders) == FALSE

\* flag of wait_until_orders_are_complete after a snapshot
flag_after_poll(open_orders) == ~(Cardinality(open_orders) = 0)

\* mutant: the order ids of round 2 are left out
valid_orderIds_round1(placed1, placed2) ==
    [i \in 1..Len(placed1) |-> placed1[i].OrderId]

\* placed_orders_firstRound['OrderId'].to_list()
\*   + placed_orders_secondRound['OrderId'].to_list()
valid_orderIds(placed1, placed2) ==
    [i \in 1..Len(placed1) |-> placed1[i].OrderId]
      \o [i \in 1..Len(placed2) |-> placed2[i].OrderId]

\* x in values, as Series.isin tests it
isin(x, values) == \E k \in 1..Len(values) : values[k] = x

\* filter_valid_callback, lines 264-266: the rows of the client, of these
\* the rows whose OrderId is among the valid ones, in their order
filter_valid_executions(executions, valid_clientId, ids) ==
    SelectSeq(SelectSeq(executions, LAMBDA e : e.ClientId = valid_clientId),
              LAMBDA e : isin(e.OrderId, ids))

\* mutant: no kept execution counts as a missing label
filter_valid_commissions_raises_on_empty(executions, commissions) ==
    \/ executions = << >>
    \/ \E i \in 1..Len(executions) :
          \A j \in 1..Len(commissions) :
              commissions[j].ExecId # executions[i].ExecId

\* filter_valid_callback, line 269: .loc with a label that is not in the
\* index of the commissions raises KeyError
filter_valid_commissions_raises(executions, commissions) ==
    \E i \in 1..Len(executions) :
        \A j \in 1..Len(commissions) :
            commissions[j].ExecId # executions[i].ExecId

RECURSIVE filter_valid_commissions(_, _)
\* filter_valid_callback, line 269: for each kept execution in turn, the
\* commission rows of its ExecId
filter_valid_commissions(executions, commissions) ==
    IF executions = << >> THEN << >>
    ELSE SelectSeq(commissions,
                   LAMBDA c : c.ExecId = Head(executions).ExecId)
           \o filter_valid_commissions(Tail(executions), commissions)

\* the order ids the broker's executions may carry: the id of the second
\* order a run places, and the id of an order no round of the run placed
FeedOrderIds == {2, 9}

\* the client ids of the broker's executions: the run's and another
FeedClientIds == {clientId, clientId + 1}

\* the executions the broker may report: up to MaxExecs of them, the i-th
\* with ExecId i
ExecutionSeqs ==
    UNION {{[i \in 1..n |-> [ExecId |-> i, ClientId |-> c[i],
                             OrderId |-> o[i]]] :
               c \in [1..n -> FeedClientIds], o \in [1..n -> FeedOrderIds]} :
           n \in 0..MaxExecs}

\* the commission reports that come with executions: one for each
\* execution of a set of them, in the order of the executions
CommissionSeqs(executions) ==
    {SelectSeq([i \in 1..Len(executions) |->
                   [ExecId |-> executions[i].ExecId]],
               LAMBDA c : c.ExecId \in reported) :
        reported \in SUBSET {executions[i].ExecId : i \in 1..Len(executions)}}

\* what a request_callback session may collect
ExecutionFeeds ==
    UNION {{<<e, c>> : c \in CommissionSeqs(e)} : e \in ExecutionSeqs}

\* a frame whose rows carry the caller's own Tif column
with_Tif(df, tif) ==
    [i \in 1..Len(df) |->
        [Index |-> df[i].Index, Action |-> df[i].Action,
         Symbol |-> df[i].Symbol, SecType |-> df[i].SecType, Tif |-> tif]]

\* time-in-force values a caller's batch may come with
CallerTifs == {"GTC"}

\* the batches given to a run; each comes with the caller's Tif column (a
\* batch without one is treated alike: the assignment of run() lines 71-72
\* creates the column or overwrites it)
RunBatches ==
    {with_Tif(DataFrame(rows), tif) :
        rows \in RowSeqs(MaxRunLen), tif \in CallerTifs}

InitRun ==
    /\ orders \in RunBatches
    /\ firstRound = << >>
    /\ secondRound = << >>
    /\ second_round_orders_sending_time \in ReleaseTimes
    /\ now \in {parse_execution_time(0, second_round_orders_sending_time) + off :
                   off \in StartOffsets}
    /\ machine_computation_time_protect = StartProtect
    /\ pc = "start"
    /\ IdleRun
    /\ IdleAdapters

\* history: the caller's position is logged when it changes
LogPhase == phases' = IF pc' = pc THEN phases ELSE Append(phases, pc')

\* history: a session of adapter module name is opened
OpenSession(name) ==
    sessions' = Append(sessions,
                       [App |-> name, Phase |-> pc, Result |-> "running"])

\* mutant: main returns while its session is still connected
CloseSession_still_connected(n) == sessions' = sessions

\* mutant: only the open orders of the session's client are reported
reqAllOpenOrders_of_client(working) ==
    {o \in working : o.ClientId = clientId}

\* request_openOrders.App.nextValidId: reqAllOpenOrders() makes the broker
\* report the working orders of every client
reqAllOpenOrders(working) == working

\* mutant: callbacks are also dispatched when main() has returned
dispatches_callbacks_after_return(a) == a \in {"connected", "none"}

\* app.run() of main(): the loop that calls the callbacks of the session
\* runs in the caller's thread from connect() until the disconnect
dispatches_callbacks(a) == a = "connected"

\* mutant: stop() runs in any session, its timer started or not
timer_fired_in_any_session(a) == a # "none"

\* threading.Timer(3, self.stop) has been started by the terminal callback
\* of the session and calls stop()
timer_fired(a) == a = "timer"

\* history: the session opened last returns a frame of n rows
CloseSession(n) ==
    sessions' = [sessions EXCEPT
                    ![Len(sessions)].Result = IF n = 0 THEN "empty" ELSE "rows"]

\* run(), lines 63-64: init_logFolders and the deadline check
RunDeadlineCheck ==
    /\ pc = "start"
    /\ IF is_time_expired_raises(now, second_round_orders_sending_time,
                                 StartProtect)
       THEN pc' = "failed" /\ error' = "AssertionError"
       ELSE pc' = "separate" /\ error' = error
    /\ LogPhase
    /\ UNCHANGED <<partitionVars, callbackVars, reconcileVars,
                   gateVars, firstRound_orderInfo_list,
                   secondRound_ordersInfo_list, placed_orders_firstRound,
                   placed_orders_secondRound, app, record, openOrder_record,
                   polls, book, nextValidId, sent, run_started_at, sessions>>
    /\ UNCHANGED adapterVars

\* run(), lines 66-77
RunSeparate ==
    /\ pc = "separate"
    /\ firstRound' = separate_orders(orders)[1]
    /\ secondRound' = separate_orders(orders)[2]
    /\ firstRound_orderInfo_list' = to_dict(separate_orders(orders)[1], "OPG")
    /\ secondRound_ordersInfo_list' = to_dict(separate_orders(orders)[2], "DAY")
    /\ pc' = "place1"
    /\ LogPhase
    /\ UNCHANGED <<orders, callbackVars, reconcileVars,
                   gateVars, error, placed_orders_firstRound,
                   placed_orders_secondRound, app, record, openOrder_record,
                   polls, book, nextValidId, sent, run_started_at, sessions>>
    /\ UNCHANGED adapterVars

\* place_order.main: an empty list returns an empty frame without a session
PlaceOrderMain ==
    /\ pc \in {"place1", "place2"}
    /\ app = "none"
    /\ IF main_without_session(orderInfo_list)
       THEN /\ pc' = IF pc = "place1" THEN "sleep" ELSE "wait2"
            /\ placed_orders_firstRound' =
                  IF pc = "place1" THEN << >> ELSE placed_orders_firstRound
            /\ placed_orders_secondRound' =
                  IF pc = "place2" THEN << >> ELSE placed_orders_secondRound
            /\ polls' = 0
            /\ UNCHANGED <<app, record, sessions>>
       ELSE /\ app' = "connected"
            /\ record' = << >>
            /\ OpenSession("place_order")
            /\ UNCHANGED <<pc, polls, placed_orders_firstRound,
                           placed_orders_secondRound>>
    /\ LogPhase
    /\ UNCHANGED <<partitionVars, callbackVars, reconcileVars,
                   gateVars, error, firstRound_orderInfo_list,
                   secondRound_ordersInfo_list, openOrder_record, book,
                   nextValidId, sent, run_started_at>>
    /\ UNCHANGED adapterVars

\* place_order.App.nextValidId: every order of the list is sent and
\* recorded, then the disconnect timer is started
PlaceOrder_nextValidId ==
    /\ pc \in {"place1", "place2"}
    /\ dispatches_callbacks(app)
    /\ record' = placed(orderInfo_list, nextValidId)
    /\ book' = book \cup {record'[i] : i \in 1..Len(record')}
    /\ sent' = sent \o [i \in 1..Len(record') |->
                           [Round |-> Round, At |-> now, Order |-> record'[i]]]
    /\ nextValidId' = nextValidId + Len(orderInfo_list)
    /\ app' = "timer"
    /\ UNCHANGED <<partitionVars, callbackVars, reconcileVars,
                   gateVars, pc, error,
                   firstRound_orderInfo_list, secondRound_ordersInfo_list,
                   placed_orders_firstRound, placed_orders_secondRound,
                   openOrder_record, polls, run_started_at, phases, sessions>>
    /\ UNCHANGED adapterVars

\* place_order.App.stop, then main returns get_placed_orders()
PlaceOrder_stop ==
    /\ pc \in {"place1", "place2"}
    /\ timer_fired(app)
    /\ \E d \in SessionSecsAt(pc) : now' = now + d
    /\ app' = "none"
    /\ placed_orders_firstRound' =
          IF pc = "place1" THEN record ELSE placed_orders_firstRound
    /\ placed_orders_secondRound' =
          IF pc = "place2" THEN record ELSE placed_orders_secondRound
    /\ pc' = IF pc = "place1" THEN "sleep" ELSE "wait2"
    /\ polls' = 0
    /\ CloseSession(Len(record))
    /\ LogPhase
    /\ UNCHANGED <<partitionVars, callbackVars, reconcileVars,
                   second_round_orders_sending_time,
                   machine_computation_time_protect, error,
                   firstRound_orderInfo_list, secondRound_ordersInfo_list,
                   record, openOrder_record, book, nextValidId, sent,
                   run_started_at>>
    /\ UNCHANGED adapterVars

\* run(), line 86
RunSettleSleep ==
    /\ pc = "sleep"
    /\ now' = time_sleep(now, SettleSleep)
    /\ pc' = "probe"
    /\ LogPhase
    /\ UNCHANGED <<partitionVars, callbackVars, reconcileVars,
                   second_round_orders_sending_time,
                   machine_computation_time_protect, error,
                   firstRound_orderInfo_list, secondRound_ordersInfo_list,
                   placed_orders_firstRound, placed_orders_secondRound, app,
                   record, openOrder_record, polls, book, nextValidId, sent,
                   run_started_at, sessions>>
    /\ UNCHANGED adapterVars

\* request_openOrders.main: a new session for the snapshot of run() line 87
\* or for one iteration of wait_until_orders_are_complete
OpenOrdersMain ==
    /\ pc \in {"probe", "wait1", "wait2"}
    /\ app = "none"
    /\ pc \in {"wait1", "wait2"} => polls < MaxPolls
    /\ app' = "connected"
    /\ openOrder_record' = {}
    /\ polls' = IF pc = "probe" THEN polls ELSE polls + 1
    /\ OpenSession("request_openOrders")
    /\ UNCHANGED <<partitionVars, callbackVars, reconcileVars,
                   gateVars, pc, error,
                   firstRound_orderInfo_list, secondRound_ordersInfo_list,
                   placed_orders_firstRound, placed_orders_secondRound,
                   record, book, nextValidId, sent, run_started_at, phases>>
    /\ UNCHANGED adapterVars

\* request_openOrders.App: nextValidId requests all open orders, openOrder
\* appends each working order, openOrderEnd starts the disconnect timer
OpenOrders_openOrderEnd ==
    /\ pc \in {"probe", "wait1", "wait2"}
    /\ dispatches_callbacks(app)
    /\ openOrder_record' = reqAllOpenOrders(book)
    /\ app' = "timer"
    /\ UNCHANGED <<partitionVars, callbackVars, reconcileVars,
                   gateVars, pc, error,
                   firstRound_orderInfo_list, secondRound_ordersInfo_list,
                   placed_orders_firstRound, placed_orders_secondRound,
                   record, polls, book, nextValidId, sent, run_started_at,
                   phases, sessions>>
    /\ UNCHANGED adapterVars

\* request_openOrders.App.stop and the return of main, after which the App
\* and its record are gone; in a completion wait the rest of the loop
\* iteration: the flag, the sleep and the loop test
OpenOrders_stop ==
    /\ pc \in {"probe", "wait1", "wait2"}
    /\ timer_fired(app)
    /\ app' = "none"
    /\ IF pc = "probe"
       THEN /\ \E d \in SessionSecsAt(pc) : now' = now + d
            /\ pc' = "gate"
       ELSE /\ \E d \in SessionSecsAt(pc) :
                  now' = time_sleep(now + d, check_freq)
            /\ pc' = IF flag_after_poll(openOrder_record) THEN pc
                     ELSE IF pc = "wait1" THEN "place2" ELSE "reconcile"
    /\ openOrder_record' = {}
    /\ CloseSession(Cardinality(openOrder_record))
    /\ LogPhase
    /\ UNCHANGED <<partitionVars, callbackVars, reconcileVars,
                   second_round_orders_sending_time,
                   machine_computation_time_protect, error,
                   firstRound_orderInfo_list, secondRound_ordersInfo_list,
                   placed_orders_firstRound, placed_orders_secondRound,
                   record, polls, book, nextValidId, sent, run_started_at>>
    /\ UNCHANGED adapterVars

\* mutant: the gate sleeps to the deadline and returns without calling func
ExecuteFuncAtTime_func_not_called ==
    /\ pc = "gate"
    /\ IF is_time_expired_raises(now, second_round_orders_sending_time,
                                 GateProtect)
       THEN /\ pc' = "failed"
            /\ error' = "AssertionError"
            /\ now' = now
       ELSE /\ now' = time_sleep(now,
                   gate_wait_seconds(now, second_round_orders_sending_time))
            /\ pc' = "place2"
            /\ error' = error
    /\ polls' = 0
    /\ LogPhase
    /\ UNCHANGED <<partitionVars, callbackVars, reconcileVars,
                   second_round_orders_sending_time,
                   machine_computation_time_protect,
                   firstRound_orderInfo_list, secondRound_ordersInfo_list,
                   placed_orders_firstRound, placed_orders_secondRound, app,
                   record, openOrder_record, book, nextValidId, sent,
                   run_started_at, sessions>>
    /\ UNCHANGED adapterVars

\* execute_func_at_time(self.wait_until_orders_are_complete, ...) of run()
\* line 92, up to the call of func: the assert of is_time_expired leaves
\* run(); a returned None is falsy, so the early return is not taken
ExecuteFuncAtTime ==
    /\ pc = "gate"
    /\ IF is_time_expired_raises(now, second_round_orders_sending_time,
                                 GateProtect)
       THEN /\ pc' = "failed"
            /\ error' = "AssertionError"
            /\ now' = now
       ELSE IF gate_wait_seconds(now, second_round_orders_sending_time) < 0
       THEN /\ pc' = "failed"
            /\ error' = "ValueError"
            /\ now' = now
       ELSE /\ now' = time_sleep(now,
                   gate_wait_seconds(now, second_round_orders_sending_time))
            /\ pc' = "wait1"
            /\ error' = error
    /\ polls' = 0
    /\ LogPhase
    /\ UNCHANGED <<partitionVars, callbackVars, reconcileVars,
                   second_round_orders_sending_time,
                   machine_computation_time_protect,
                   firstRound_orderInfo_list, secondRound_ordersInfo_list,
                   placed_orders_firstRound, placed_orders_secondRound, app,
                   record, openOrder_record, book, nextValidId, sent,
                   run_started_at, sessions>>
    /\ UNCHANGED adapterVars

\* the request_callback session: main() of apps/request_callback.py
\* creates the App with empty lists and connects
RequestCallbackMain ==
    /\ pc = "reconcile"
    /\ app = "none"
    /\ app' = "connected"
    /\ exec_list' = << >>
    /\ commission_list' = << >>
    /\ OpenSession("request_callback")
    /\ UNCHANGED <<partitionVars, callbackVars, gateVars, pc, error,
                   firstRound_orderInfo_list, secondRound_ordersInfo_list,
                   placed_orders_firstRound, placed_orders_secondRound,
                   record, openOrder_record, polls, book, nextValidId, sent,
                   run_started_at, phases, executions_filtered,
                   commissions_filtered>>
    /\ UNCHANGED adapterVars

\* request_callback.App: nextValidId requests the executions, execDetails
\* and commissionReport append what the broker reports, execDetailsEnd
\* starts the disconnect timer
RequestCallback_execDetailsEnd ==
    /\ pc = "reconcile"
    /\ dispatches_callbacks(app)
    /\ \E feed \in ExecutionFeeds :
          /\ exec_list' = feed[1]
          /\ commission_list' = feed[2]
    /\ app' = "timer"
    /\ UNCHANGED <<partitionVars, callbackVars, gateVars, pc, error,
                   firstRound_orderInfo_list, secondRound_ordersInfo_list,
                   placed_orders_firstRound, placed_orders_secondRound,
                   record, openOrder_record, polls, book, nextValidId, sent,
                   run_started_at, phases, sessions, executions_filtered,
                   commissions_filtered>>
    /\ UNCHANGED adapterVars

\* request_callback.App.stop and the return of main, then run() lines
\* 107-117: the valid order ids, filter_valid_callback and the return
RunReconcile ==
    /\ pc = "reconcile"
    /\ timer_fired(app)
    /\ app' = "none"
    /\ \E d \in SessionSecsAt(pc) : now' = now + d
    /\ CloseSession(Len(exec_list))
    /\ LET ids == valid_orderIds(placed_orders_firstRound,
                                 placed_orders_secondRound)
           executions == filter_valid_executions(exec_list, clientId, ids)
       IN IF filter_valid_commissions_raises(executions, commission_list)
          THEN /\ pc' = "failed"
               /\ error' = "KeyError"
               /\ UNCHANGED <<executions_filtered, commissions_filtered>>
          ELSE /\ pc' = "done"
               /\ error' = error
               /\ executions_filtered' = executions
               /\ commissions_filtered' =
                     filter_valid_commissions(executions, commission_list)
    /\ LogPhase
    /\ UNCHANGED <<partitionVars, callbackVars,
                   second_round_orders_sending_time,
                   machine_computation_time_protect,
                   firstRound_orderInfo_list, secondRound_ordersInfo_list,
                   placed_orders_firstRound, placed_orders_secondRound,
                   record, openOrder_record, polls, book, nextValidId, sent,
                   run_started_at, exec_list, commission_list>>
    /\ UNCHANGED adapterVars

\* the broker fills, cancels or rejects a working order
Fill ==
    /\ pc \notin {"done", "failed"}
    /\ \E o \in book : book' = book \ {o}
    /\ UNCHANGED <<partitionVars, callbackVars, reconcileVars,
                   gateVars, pc, error,
                   firstRound_orderInfo_list, secondRound_ordersInfo_list,
                   placed_orders_firstRound, placed_orders_secondRound, app,
                   record, openOrder_record, polls, nextValidId, sent,
                   run_started_at, phases, sessions>>
    /\ UNCHANGED adapterVars

Next ==
    \/ RunDeadlineCheck
    \/ RunSeparate
    \/ PlaceOrderMain
    \/ PlaceOrder_nextValidId
    \/ PlaceOrder_stop
    \/ RunSettleSleep
    \/ OpenOrdersMain
    \/ OpenOrders_openOrderEnd
    \/ OpenOrders_stop
    \/ ExecuteFuncAtTime
    \/ RequestCallbackMain
    \/ RequestCallback_execDetailsEnd
    \/ RunReconcile
    \/ Fill

Init == InitRun

Spec == Init /\ [][Next]_vars

\* a step of the program itself: of run() or of a callback of a session
ProgramStep ==
    \/ RunDeadlineCheck
    \/ RunSeparate
    \/ PlaceOrderMain
    \/ PlaceOrder_nextValidId
    \/ PlaceOrder_stop
    \/ RunSettleSleep
    \/ OpenOrdersMain
    \/ OpenOrders_openOrderEnd
    \/ OpenOrders_stop
    \/ ExecuteFuncAtTime
    \/ RequestCallbackMain
    \/ RequestCallback_execDetailsEnd
    \/ RunReconcile

\* App.error of a session: super().error logs the error, nothing else
AdapterError ==
    /\ app \in {"connected", "timer"}
    /\ sessions[Len(sessions)].Result = "running"
    /\ sessions' = [sessions EXCEPT ![Len(sessions)].Result = "error"]
    /\ UNCHANGED <<partitionVars, callbackVars, reconcileVars, gateVars,
                   pc, error, firstRound_orderInfo_list,
                   secondRound_ordersInfo_list, placed_orders_firstRound,
                   placed_orders_secondRound, app, record, openOrder_record,
                   polls, book, nextValidId, sent, run_started_at, phases>>
    /\ UNCHANGED adapterVars

\* after an error the broker never sends what the terminal callback of the
\* session waits for (nextValidId, openOrderEnd, execDetailsEnd)
SessionStalls ==
    /\ app = "connected"
    /\ sessions[Len(sessions)].Result = "error"
    /\ app' = "stalled"
    /\ UNCHANGED <<partitionVars, callbackVars, reconcileVars, gateVars,
                   pc, error, firstRound_orderInfo_list,
                   secondRound_ordersInfo_list, placed_orders_firstRound,
                   placed_orders_secondRound, record, openOrder_record,
                   polls, book, nextValidId, sent, run_started_at, phases,
                   sessions>>
    /\ UNCHANGED adapterVars

NextFault ==
    \/ Next
    \/ AdapterError
    \/ SessionStalls

\* the run with a broker that reports errors
SpecFault == Init /\ [][NextFault]_vars

\* place_order.App.nextValidId delivered once more while the session is
\* connected and its timer pending: nextorderId is set to the id delivered
\* and place_order() sends and records the whole list again and starts
\* another timer
PlaceOrder_nextValidId_again ==
    /\ pc \in {"place1", "place2"}
    /\ app = "timer"
    /\ Len(record) = Len(orderInfo_list)
    /\ record' = record \o placed(orderInfo_list, nextValidId)
    /\ book' = book \cup {record'[i] : i \in 1..Len(record')}
    /\ sent' = sent \o [i \in 1..Len(orderInfo_list) |->
                           [Round |-> Round, At |-> now,
                            Order |-> record'[Len(record) + i]]]
    /\ nextValidId' = nextValidId + Len(orderInfo_list)
    /\ UNCHANGED <<partitionVars, callbackVars, reconcileVars,
                   gateVars, pc, error, app,
                   firstRound_orderInfo_list, secondRound_ordersInfo_list,
                   placed_orders_firstRound, placed_orders_secondRound,
                   openOrder_record, polls, run_started_at, phases, sessions>>
    /\ UNCHANGED adapterVars

NextRedeliver ==
    \/ Next
    \/ PlaceOrder_nextValidId_again

\* the run at a broker that may deliver nextValidId twice in a session
SpecRedeliver == Init /\ [][NextRedeliver]_vars

\* an order that another client, or an earlier session, has working at
\* the broker when run() is entered
ForeignOrder ==
    [ClientId |-> clientId + 1, OrderId |-> 1, Action |-> "BUY",
     Symbol |-> "MSFT", SecType |-> "STK", Tif |-> "GTC"]

\* run() entered an hour before the release time while the broker holds
\* the foreign order
InitForeign ==
    /\ orders \in RunBatches
    /\ firstRound = << >>
    /\ secondRound = << >>
    /\ second_round_orders_sending_time \in ReleaseTimes
    /\ now = parse_execution_time(0, second_round_orders_sending_time)
               - 3600
    /\ machine_computation_time_protect = StartProtect
    /\ pc = "start"
    /\ IdleSessions
    /\ book = {ForeignOrder}
    /\ exec_list = << >>
    /\ commission_list = << >>
    /\ executions_filtered = << >>
    /\ commissions_filtered = << >>
    /\ IdleCallback
    /\ IdleAdapters

\* the run at a broker that other clients trade at too
SpecForeign == InitForeign /\ [][Next]_vars

\* the run under the scheduling the code relies on: a statement that can
\* run does run, a sleep ends, and a session the adapter has opened gets
\* its callbacks and returns; the broker fills orders or does not
SpecLive == Init /\ [][Next]_vars /\ WF_vars(ProgramStep)

\* the run under the scheduling of SpecLive at a broker that goes on
\* filling, cancelling or rejecting as long as it holds a working order
SpecFills == SpecLive /\ WF_vars(Fill)

(***************************************************************************)
(* The reconciliation after run(): filter_valid_callback (trading.py),     *)
(* group_execution_and_commission_by_date and lastest_date_callback        *)
(* (utils_callback.py) and the tail of main() (main.py), each called on    *)
(* frames of at most MaxRows rows.  The Time of an execution is an integer *)
(* number of hours since 00:00 UTC of day 0; the columns Shares and        *)
(* Commission tell the reports of one ExecId apart.                        *)
(***************************************************************************)
\* hours US/Eastern is behind UTC (daylight time)
EasternOffset == 4

\* pd.to_datetime(Time, utc=True), tz_convert and .dt.date of lines 33-36:
\* the conversions keep the instant, the date is the US/Eastern one
us_eastern_date(time) == (time - EasternOffset) \div 24

\* utils_time.now('US/Eastern').date() at the clock reading current_time,
\* in seconds
now_date(current_time) == us_eastern_date(current_time \div 3600)

RECURSIVE merge_left(_, _)
\* mutant: how="left": an execution without a commission stays, with an
\* empty commission side
merge_left(left, right) ==
    IF left = << >> THEN << >>
    ELSE LET matching ==
                 SelectSeq(right, LAMBDA c : c.ExecId = Head(left).ExecId)
         IN (IF matching = << >>
             THEN << [Exec |-> Head(left),
                      Comm |-> [ExecId |-> Head(left).ExecId,
                                Commission |-> 0]] >>
             ELSE [j \in 1..Len(matching) |->
                      [Exec |-> Head(left), Comm |-> matching[j]]])
              \o merge_left(Tail(left), right)

RECURSIVE merge(_, _)
\* pd.merge(exceutions, commissions, on="ExecId", how="inner"): the rows of
\* the left frame in their order, each joined with the rows of the right
\* frame that have its ExecId, in their order
merge(left, right) ==
    IF left = << >> THEN << >>
    ELSE LET matching ==
                 SelectSeq(right, LAMBDA c : c.ExecId = Head(left).ExecId)
         IN [j \in 1..Len(matching) |->
                [Exec |-> Head(left), Comm |-> matching[j]]]
              \o merge(Tail(left), right)

\* mutant: the rows of every client are kept
client_rows_all(sub_df, client) == sub_df

\* lines 42-43: with a valid_clientId, the rows of that client
client_rows(sub_df, client) ==
    IF client # << >>
    THEN SelectSeq(sub_df, LAMBDA m : m.Exec.ClientId = client[1])
    ELSE sub_df

\* group_execution_and_commission_by_date: one key for each date of the
\* merged rows, with the executions and the commissions of the rows of
\* that date that are left by the client filter
group_execution_and_commission_by_date(exceutions, commissions, client) ==
    LET merged_df == merge(exceutions, commissions)
        dates == {us_eastern_date(merged_df[i].Exec.Time) :
                     i \in 1..Len(merged_df)}
        sub_df(d) ==
            client_rows(
                SelectSeq(merged_df,
                          LAMBDA m : us_eastern_date(m.Exec.Time) = d),
                client)
    IN [d \in dates |->
           << [i \in 1..Len(sub_df(d)) |-> sub_df(d)[i].Exec],
              [i \in 1..Len(sub_df(d)) |-> sub_df(d)[i].Comm] >>]

\* mutant: the earliest key
max_smallest(keys) == CHOOSE k \in keys : \A other \in keys : k <= other

\* max(datewise_dict.keys())
max(keys) == CHOOSE k \in keys : \A other \in keys : other <= k

\* lastest_date_callback, lines 63-64: TRUE when it raises ValueError
lastest_date_callback_raises(dict) == DOMAIN dict = {}

\* lastest_date_callback, lines 67-72
lastest_date_callback(dict) == dict[max(DOMAIN dict)]

RECURSIVE rows_at(_, _, _)
\* the rows of df at the positions keep, from position i on
rows_at(df, keep, i) ==
    IF i > Len(df) THEN << >>
    ELSE (IF i \in keep THEN <<df[i]>> ELSE << >>) \o rows_at(df, keep, i + 1)

\* mutant: keep="first"
drop_duplicates_first(df) ==
    rows_at(df, {i \in 1..Len(df) :
                    \A j \in 1..(i - 1) : df[j].ExecId # df[i].ExecId}, 1)

\* mutant: only the first report of a repeated ExecId is dropped
drop_duplicates_one(df) ==
    rows_at(df, {i \in 1..Len(df) :
                    \/ \E j \in 1..(i - 1) : df[j].ExecId = df[i].ExecId
                    \/ \A j \in 1..Len(df) :
                          j # i => df[j].ExecId # df[i].ExecId}, 1)

\* df.drop_duplicates(subset=["ExecId"], keep="last")
drop_duplicates(df) ==
    rows_at(df, {i \in 1..Len(df) :
                    \A j \in (i + 1)..Len(df) : df[j].ExecId # df[i].ExecId},
            1)

ExecIds == {1, 2}

\* execution times: 03:00 UTC of day 0 and of day 1
ExecTimes == {3, 27}

\* who an execution is of: this client with an order id of the run or with
\* another one, or another client with an order id of the run
ExecOwners ==
    {<<c, o>> \in FeedClientIds \X FeedOrderIds : c = clientId \/ o = 2}

\* the frames of executions a function is called with
CallbackExecutions ==
    UNION {{[i \in 1..n |-> [ExecId |-> e[i], ClientId |-> w[i][1],
                             OrderId |-> w[i][2], Time |-> t[i],
                             Shares |-> i]] :
               e \in [1..n -> ExecIds], w \in [1..n -> ExecOwners],
               t \in [1..n -> ExecTimes]} :
           n \in 0..MaxRows}

\* the frames of commissions a function is called with
CallbackCommissions ==
    UNION {{[i \in 1..n |-> [ExecId |-> e[i], Commission |-> i]] :
               e \in [1..n -> ExecIds]} :
           n \in 0..MaxRows}

\* the valid_orderIds a direct call of filter_valid_callback is given
ValidOrderIdLists == {<<2>>, <<9, 2>>}

InitCallback ==
    /\ exec_list \in CallbackExecutions
    /\ commission_list \in CallbackCommissions
    /\ executions_filtered = << >>
    /\ commissions_filtered = << >>
    /\ IdleCallback
    /\ pc = "call"
    /\ orders = << >>
    /\ firstRound = << >>
    /\ secondRound = << >>
    /\ now = 0
    /\ second_round_orders_sending_time = <<"1", "2", ":", "3", "7">>
    /\ machine_computation_time_protect = 60
    /\ IdleOrchestrator
    /\ IdleAdapters

\* filter_valid_callback(executions, commissions, valid_clientId,
\* valid_orderIds) called on its own
FilterValidCallback ==
    /\ pc = "call"
    /\ \E c \in FeedClientIds, ids \in ValidOrderIdLists :
          /\ arg_valid_clientId' = <<c>>
          /\ arg_valid_orderIds' = ids
          /\ LET executions == filter_valid_executions(exec_list, c, ids)
             IN IF filter_valid_commissions_raises(executions, commission_list)
                THEN /\ pc' = "KeyError"
                     /\ UNCHANGED <<executions_filtered,
                                    commissions_filtered>>
                ELSE /\ pc' = "filtered"
                     /\ executions_filtered' = executions
                     /\ commissions_filtered' =
                           filter_valid_commissions(executions,
                                                    commission_list)
    /\ LogPhase
    /\ UNCHANGED <<partitionVars, gateVars, orchestratorVars, exec_list,
                   commission_list, datewise_dict, main_executions,
                   main_commissions>>
    /\ UNCHANGED adapterVars

\* group_execution_and_commission_by_date called on its own with the
\* fetched frames, or as main() line 54 calls it, with the frames that
\* filter_valid_callback gave run() and the client id main() made the
\* Trading object with
GroupByDate ==
    /\ pc \in {"call", "filtered"}
    /\ IF pc = "call"
       THEN /\ arg_valid_clientId' \in
                  {<< >>} \cup {<<c>> : c \in FeedClientIds}
            /\ datewise_dict' =
                  group_execution_and_commission_by_date(
                      exec_list, commission_list, arg_valid_clientId')
            /\ UNCHANGED <<main_executions, main_commissions>>
       ELSE /\ arg_valid_clientId' = arg_valid_clientId
            /\ datewise_dict' =
                  group_execution_and_commission_by_date(
                      executions_filtered, commissions_filtered,
                      arg_valid_clientId)
            /\ main_executions' = executions_filtered
            /\ main_commissions' = commissions_filtered
    /\ pc' = "grouped"
    /\ LogPhase
    /\ UNCHANGED <<partitionVars, gateVars, orchestratorVars, reconcileVars,
                   arg_valid_orderIds>>
    /\ UNCHANGED adapterVars

\* lastest_date_callback(datewise_dict) called on its own
LastestDateCallback ==
    /\ pc = "grouped"
    /\ IF lastest_date_callback_raises(datewise_dict)
       THEN /\ pc' = "ValueError"
            /\ UNCHANGED <<main_executions, main_commissions>>
       ELSE /\ pc' = "lastest"
            /\ main_executions' = lastest_date_callback(datewise_dict)[1]
            /\ main_commissions' = lastest_date_callback(datewise_dict)[2]
    /\ LogPhase
    /\ UNCHANGED <<partitionVars, gateVars, orchestratorVars, reconcileVars,
                   arg_valid_clientId, arg_valid_orderIds, datewise_dict>>
    /\ UNCHANGED adapterVars

\* main(), lines 56-67: with a mapping that is not empty and whose latest
\* date is today's, the bucket of that date with its duplicates dropped
MainLatestDate ==
    /\ pc = "grouped"
    /\ \E hour \in ExecTimes : now' = hour * 3600
    /\ IF /\ DOMAIN datewise_dict # {}
          /\ max(DOMAIN datewise_dict) = now_date(now')
       THEN /\ main_executions' =
                  drop_duplicates(datewise_dict[max(DOMAIN datewise_dict)][1])
            /\ main_commissions' =
                  drop_duplicates(datewise_dict[max(DOMAIN datewise_dict)][2])
            /\ pc' = "main_deduplicated"
       ELSE /\ pc' = "main_returned"
            /\ UNCHANGED <<main_executions, main_commissions>>
    /\ LogPhase
    /\ UNCHANGED <<partitionVars, second_round_orders_sending_time,
                   machine_computation_time_protect, orchestratorVars,
                   reconcileVars, arg_valid_clientId, arg_valid_orderIds,
                   datewise_dict>>
    /\ UNCHANGED adapterVars

\* drop_duplicates(subset=["ExecId"], keep="last") of main() lines 66-67,
\* applied to the fetched frames, to a bucket lastest_date_callback
\* returned, or once more to its own result
DropDuplicates ==
    /\ pc \in {"call", "lastest", "deduplicated"}
    /\ main_executions' =
          drop_duplicates(IF pc = "call" THEN exec_list ELSE main_executions)
    /\ main_commissions' =
          drop_duplicates(IF pc = "call" THEN commission_list
                          ELSE main_commissions)
    /\ pc' = IF pc = "deduplicated" THEN "deduplicated_again"
             ELSE "deduplicated"
    /\ LogPhase
    /\ UNCHANGED <<partitionVars, gateVars, orchestratorVars, reconcileVars,
                   arg_valid_clientId, arg_valid_orderIds, datewise_dict>>
    /\ UNCHANGED adapterVars

NextCallback ==
    \/ FilterValidCallback
    \/ GroupByDate
    \/ LastestDateCallback
    \/ MainLatestDate
    \/ DropDuplicates

SpecCallback == InitCallback /\ [][NextCallback]_vars

(***************************************************************************)
(* The loggers of the adapter sessions (apps/log.py).  Every App makes its *)
(* logger with create_logger(path, name, log_mode): root_logger is True,   *)
(* so all sessions share logging.getLogger().  stop() runs on the timer    *)
(* thread of its session while the caller, once disconnect() has made      *)
(* app.run() return, goes on to make the next App.                         *)
(***************************************************************************)
LogModes == {"save_and_print", "save_only", "print_only"}

\* create_logger, lines 33-42: the handlers a session adds to the logger
create_logger(handlers, session, log_mode) ==
    handlers
    \o (IF log_mode \in {"save_and_print", "save_only"}
        THEN <<[Session |-> session, Kind |-> "file"]>> ELSE << >>)
    \o (IF log_mode \in {"save_and_print", "print_only"}
        THEN <<[Session |-> session, Kind |-> "console"]>> ELSE << >>)

\* logger.removeHandler(handler): list.remove of the handler
removeHandler(handlers, handler) ==
    SelectSeq(handlers, LAMBDA h : h # handler)

\* the App of the next session is made: __init__ calls create_logger; the
\* caller is back from the session before, whose stop() has disconnected
AppInit ==
    /\ Len(stop_thread) < MaxSessions
    /\ stop_thread # << >>
          => stop_thread[Len(stop_thread)] \notin {"connected"}
    /\ \E log_mode \in LogModes :
          root_handlers' = create_logger(root_handlers, Len(stop_thread) + 1,
                                         log_mode)
    /\ stop_thread' = Append(stop_thread, "connected")
    /\ loop_index' = Append(loop_index, 0)
    /\ UNCHANGED <<partitionVars, gateVars, pc, runVars, closed_handlers,
                   accountVars>>

\* stop(), first statement: the timer thread of session s disconnects,
\* which lets app.run() return to the caller; then it sleeps 0.5 s
Stop_disconnect ==
    /\ \E s \in 1..Len(stop_thread) :
          /\ stop_thread[s] = "connected"
          /\ stop_thread' = [stop_thread EXCEPT ![s] = "sleep"]
    /\ UNCHANGED <<partitionVars, gateVars, pc, runVars, root_handlers,
                   closed_handlers, loop_index, accountVars>>

\* stop(), last statement: the sleep is over and close_logger is entered
Stop_close_logger ==
    /\ \E s \in 1..Len(stop_thread) :
          /\ stop_thread[s] = "sleep"
          /\ stop_thread' = [stop_thread EXCEPT ![s] = "close_logger"]
          /\ loop_index' = [loop_index EXCEPT ![s] = 0]
    /\ UNCHANGED <<partitionVars, gateVars, pc, runVars, root_handlers,
                   closed_handlers, accountVars>>

\* close_logger, lines 58-60: one turn of `for handler in logger.handlers`,
\* whose iterator reads the list at its index and ends when the index is
\* past the end of the list as it is then
CloseLogger_next ==
    /\ \E s \in 1..Len(stop_thread) :
          /\ stop_thread[s] = "close_logger"
          /\ IF loop_index[s] < Len(root_handlers)
             THEN LET handler == root_handlers[loop_index[s] + 1]
                  IN /\ closed_handlers' =
                           closed_handlers
                              \cup {[Handler |-> handler, By |-> s]}
                     /\ root_handlers' =
                           removeHandler(root_handlers, handler)
                     /\ loop_index' = [loop_index EXCEPT ![s] = @ + 1]
                     /\ UNCHANGED stop_thread
             ELSE /\ stop_thread' = [stop_thread EXCEPT ![s] = "returned"]
                  /\ UNCHANGED <<root_handlers, closed_handlers,
                                 loop_index>>
    /\ UNCHANGED <<partitionVars, gateVars, pc, runVars, accountVars>>

InitLogger ==
    /\ orders = << >>
    /\ firstRound = << >>
    /\ secondRound = << >>
    /\ pc = "call"
    /\ now = 0
    /\ second_round_orders_sending_time = <<"1", "2", ":", "3", "7">>
    /\ machine_computation_time_protect = 60
    /\ IdleRun
    /\ IdleAdapters

NextLogger ==
    \/ AppInit
    \/ Stop_disconnect
    \/ Stop_close_logger
    \/ CloseLogger_next

SpecLogger == InitLogger /\ [][NextLogger]_vars

(***************************************************************************)
(* A session of apps/request_accountUpdates.py.  On connect the broker     *)
(* sends managedAccounts and nextValidId; it answers reqIds with           *)
(* nextValidId and reqAccountUpdates(True, a) with the values of a and     *)
(* then accountDownloadEnd(a).  The run loop dispatches the messages it    *)
(* has received in any order, until stop() disconnects.                    *)
(***************************************************************************)
AccountNames == <<"U1", "U2", "U3">>

\* the lists of accounts the broker may manage
AccountLists == {SubSeq(AccountNames, 1, n) : n \in 0..MaxAccounts}

\* mutant: the first account of the list is fetched again and again
fetches_accountName_first(list, index) ==
    IF list # << >>
    THEN [index |-> 0, accountName |-> list[1]]
    ELSE [index |-> index, accountName |-> ""]

\* fetches_accountName: the index after the call and the name returned;
\* the index counts from 0
fetches_accountName(list, index) ==
    IF list # << >> /\ index + 1 < Len(list)
    THEN [index |-> index + 1, accountName |-> list[index + 2]]
    ELSE [index |-> index, accountName |-> ""]

\* mutant: the timer is started at the end of any download
is_last_account_any(accountName, list) == TRUE

\* accountDownloadEnd, line 133: accountName == self.accountsList[-1]
is_last_account(accountName, list) == accountName = list[Len(list)]

\* main() of request_accountUpdates has made the App and connected
InitAccount ==
    /\ orders = << >>
    /\ firstRound = << >>
    /\ secondRound = << >>
    /\ pc = "call"
    /\ now = 0
    /\ second_round_orders_sending_time = <<"1", "2", ":", "3", "7">>
    /\ machine_computation_time_protect = 60
    /\ IdleRun
    /\ IdleLogger
    /\ accountsList = << >>
    /\ accountName_index = -1
    /\ \E list \in AccountLists :
          inbox = [managedAccounts |-> <<list>>, nextValidId |-> 1,
                   accountDownloadEnd |-> {}]
    /\ requested = << >>
    /\ ended = {}
    /\ timers = << >>
    /\ account_app = "connected"
    /\ updateAccountValue_list = << >>

\* App.managedAccounts: the list is stored and reqIds(-1) is sent
Account_managedAccounts ==
    /\ account_app \in {"connected", "timer"}
    /\ inbox.managedAccounts # << >>
    /\ accountsList' = inbox.managedAccounts[1]
    /\ inbox' = [inbox EXCEPT !.managedAccounts = << >>,
                              !.nextValidId = @ + 1]
    /\ UNCHANGED <<partitionVars, gateVars, pc, runVars, loggerVars,
                   accountName_index, requested, ended, timers, account_app,
                   updateAccountValue_list>>

\* App.nextValidId: the next account, if there is one, is requested
Account_nextValidId ==
    /\ account_app \in {"connected", "timer"}
    /\ inbox.nextValidId > 0
    /\ LET fetched == fetches_accountName(accountsList, accountName_index)
       IN /\ accountName_index' = fetched.index
          /\ IF fetched.accountName # ""
             THEN /\ requested' = Append(requested, fetched.accountName)
                  /\ inbox' = [inbox EXCEPT
                                  !.nextValidId = @ - 1,
                                  !.accountDownloadEnd =
                                      @ \cup {fetched.accountName}]
             ELSE /\ requested' = requested
                  /\ inbox' = [inbox EXCEPT !.nextValidId = @ - 1]
    /\ UNCHANGED <<partitionVars, gateVars, pc, runVars, loggerVars,
                   accountsList, ended, timers, account_app,
                   updateAccountValue_list>>

\* App.accountDownloadEnd: the subscription is cancelled, reqIds(-1) is
\* sent, and after the last account of the list the timer is started
Account_accountDownloadEnd ==
    /\ account_app \in {"connected", "timer"}
    /\ \E accountName \in inbox.accountDownloadEnd :
          /\ inbox' = [inbox EXCEPT !.accountDownloadEnd =
                                       @ \ {accountName},
                                   !.nextValidId = @ + 1]
          /\ ended' = ended \cup {accountName}
          /\ IF is_last_account(accountName, accountsList)
             THEN /\ timers' = Append(timers, accountName)
                  /\ account_app' = "timer"
             ELSE UNCHANGED <<timers, account_app>>
    /\ UNCHANGED <<partitionVars, gateVars, pc, runVars, loggerVars,
                   accountsList, accountName_index, requested,
                   updateAccountValue_list>>

\* App.updateAccountValue: a value of an account whose download has not
\* ended is appended to the list main() returns
Account_updateAccountValue ==
    /\ account_app \in {"connected", "timer"}
    /\ Len(updateAccountValue_list) < MaxValues
    /\ \E accountName \in inbox.accountDownloadEnd :
          updateAccountValue_list' =
             Append(updateAccountValue_list, accountName)
    /\ UNCHANGED <<partitionVars, gateVars, pc, runVars, loggerVars,
                   accountsList, accountName_index, inbox, requested, ended,
                   timers, account_app>>

\* App.stop called by the timer: the session disconnects and main returns
Account_stop ==
    /\ account_app = "timer"
    /\ account_app' = "none"
    /\ UNCHANGED <<partitionVars, gateVars, pc, runVars, loggerVars,
                   accountsList, accountName_index, inbox, requested, ended,
                   timers, updateAccountValue_list>>

NextAccount ==
    \/ Account_managedAccounts
    \/ Account_nextValidId
    \/ Account_accountDownloadEnd
    \/ Account_updateAccountValue
    \/ Account_stop

SpecAccount == InitAccount /\ [][NextAccount]_vars

(***************************************************************************)
(* Properties of the partitioner.  Rows are compared by their data, the    *)
(* index label left aside.                                                 *)
(***************************************************************************)
Data(r) == [Action |-> r.Action, Symbol |-> r.Symbol, SecType |-> r.SecType]

DataSeq(df) == [i \in 1..Len(df) |-> Data(df[i])]

Count(df, d) == Cardinality({i \in 1..Len(df) : Data(df[i]) = d})

Key(r) == <<r.Symbol, r.SecType>>

HasOrder(df, action, k) ==
    \E i \in 1..Len(df) : df[i].Action = action /\ Key(df[i]) = k

Keys == Symbols \X SecTypes

CrossingKey(df, k) == HasOrder(df, "BUY", k) /\ HasOrder(df, "SELL", k)

RECURSIVE IsSubseq(_, _)
IsSubseq(s, t) ==
    IF s = << >> THEN TRUE
    ELSE IF t = << >> THEN FALSE
    ELSE IF Head(s) = Head(t) THEN IsSubseq(Tail(s), Tail(t))
    ELSE IsSubseq(s, Tail(t))

\* C2: every input order is in exactly one of the two rounds: for every row
\* the occurrences in round 1 plus those in round 2 equal the occurrences in
\* the input, and no row occurs in both rounds.
C2_PartitionComplete ==
    pc = "returned" =>
        \A d \in OrderRows :
            /\ Count(firstRound, d) + Count(secondRound, d) = Count(orders, d)
            /\ ~(Count(firstRound, d) > 0 /\ Count(secondRound, d) > 0)

C2_Witness ==
    /\ pc = "returned"
    /\ Len(firstRound) > 0
    /\ Len(secondRound) > 0
    /\ Len(orders) = MaxLen

\* C3: for every instrument key with both a BUY and a SELL in the batch,
\* every SELL on the key is in round 1 and every BUY on the key in round 2.
C3_CrossingInvariant ==
    pc = "returned" =>
        \A k \in Keys :
            CrossingKey(orders, k) =>
                /\ ~HasOrder(secondRound, "SELL", k)
                /\ ~HasOrder(firstRound, "BUY", k)
                /\ \A d \in OrderRows :
                      Key(d) = k =>
                          Count(firstRound, d) + Count(secondRound, d)
                              = Count(orders, d)

C3_Witness ==
    /\ pc = "returned"
    /\ \E k \in Keys :
          /\ CrossingKey(orders, k)
          /\ HasOrder(firstRound, "SELL", k)
          /\ HasOrder(secondRound, "BUY", k)

\* C4: round 2 holds exactly the crossing BUY orders: a BUY is in round 2
\* if and only if some SELL of the batch has the same (Symbol, SecType);
\* every other order is in round 1.
C4_Round2ExactlyCrossingBuys ==
    pc = "returned" =>
        \A d \in OrderRows :
            /\ Count(secondRound, d) > 0 =>
                  d.Action = "BUY" /\ HasOrder(orders, "SELL", Key(d))
            /\ (Count(orders, d) > 0 /\ d.Action = "BUY"
                  /\ ~HasOrder(orders, "SELL", Key(d)))
                    => Count(firstRound, d) = Count(orders, d)
            /\ (d.Action = "BUY" /\ HasOrder(orders, "SELL", Key(d)))
                    => Count(secondRound, d) = Count(orders, d)

\* C5: when no instrument key has both a BUY and a SELL, round 2 is empty
\* and round 1 is the input batch in the input order.
C5_NoCrossingPassthrough ==
    (pc = "returned" /\ \A k \in Keys : ~CrossingKey(orders, k)) =>
        /\ secondRound = << >>
        /\ DataSeq(firstRound) = DataSeq(orders)

SecondOfDay(execution_time) ==
    CASE execution_time = <<"1", "2", ":", "0", "0">> -> 43200
      [] execution_time = <<"0", "0", ":", "0", "0">> -> 0
      [] execution_time = <<"0", "0", ":", "0", "1">> -> 60
      [] execution_time = <<"2", "3", ":", "5", "9">> -> 86340
      [] execution_time = <<"9", ":", "3", "0">> -> 34200
      [] execution_time = <<"1", "2", ":", "3", "7">> -> 45420

\* midnight that begins the day of the clock reading t
Midnight(t) == t - (t % 86400)

\* the deadline taken on the date of the clock reading t
DeadlineToday(t, execution_time) == Midnight(t) + SecondOfDay(execution_time)

\* C8: is_time_expired fails exactly when now + margin >= deadline, the
\* deadline being HH:MM of today's date, never of tomorrow's; with deadline
\* 12:00 and margin 20 it fails at 11:59:50 and passes at 10:00:00.
C8_ExpiredIffNowPlusMarginReachesDeadline ==
    /\ pc = "AssertionError" =>
          now + machine_computation_time_protect
              >= DeadlineToday(now, second_round_orders_sending_time)
    /\ pc = "returned" =>
          now + machine_computation_time_protect
              < DeadlineToday(now, second_round_orders_sending_time)
    /\ (/\ second_round_orders_sending_time = <<"1", "2", ":", "0", "0">>
        /\ machine_computation_time_protect = 20
        /\ now % 86400 = 11 * 3600 + 59 * 60 + 50) => pc # "returned"
    /\ (/\ second_round_orders_sending_time = <<"1", "2", ":", "0", "0">>
        /\ machine_computation_time_protect = 20
        /\ now % 86400 = 10 * 3600) => pc # "AssertionError"

\* the time of day of the deadline is past, tomorrow's is more than the
\* margin away, and the check has failed
C8_Witness ==
    /\ pc = "AssertionError"
    /\ now > DeadlineToday(now, second_round_orders_sending_time)
    /\ now + machine_computation_time_protect
          < DeadlineToday(now, second_round_orders_sending_time) + 86400

(***************************************************************************)
(* Properties of a run of the orchestrator.                                *)
(***************************************************************************)
\* the release time of the day on which run() was entered
ReleaseTime ==
    DeadlineToday(run_started_at, second_round_orders_sending_time)

Opposing(a, b) ==
    /\ a.Action = "BUY"
    /\ b.Action = "SELL"
    /\ a.Symbol = b.Symbol
    /\ a.SecType = b.SecType

\* C1: the broker never holds a working BUY and a working SELL of this run
\* on the same (Symbol, SecType): round 1 has no such pair, and a round-2
\* BUY is sent only when no round-1 SELL on its key is still working.
C1_NoOpposingWorkingOrders ==
    /\ \A a, b \in book : ~Opposing(a, b)
    /\ \A i, j \in 1..Len(firstRound_orderInfo_list) :
          ~Opposing(firstRound_orderInfo_list[i], firstRound_orderInfo_list[j])

\* a round-2 BUY is working at the broker, on a key sold in round 1
C1_Witness ==
    \E a \in book :
        /\ a.Tif = "DAY"
        /\ \E i \in 1..Len(sent) :
              sent[i].Round = 1 /\ Opposing(a, sent[i].Order)

\* C9: when the expiry check of the gate would fail, execute_func_at_time
\* returns at once, without raising, sleeping or running the gated wait,
\* and run() goes on to the round-2 submission.
C9_ExpiredGateReturns ==
    [][(/\ pc = "gate"
        /\ pc' # "gate"
        /\ now + GateProtect >= ReleaseTime)
       => (pc' = "place2" /\ now' = now /\ error' = "none")]_vars

\* C10: round 2 is sent at or after the release time: the gate returns no
\* earlier than the release time and no round-2 order is sent before it.
C10_Round2NotBeforeRelease ==
    /\ \A i \in 1..Len(sent) : sent[i].Round = 2 => sent[i].At >= ReleaseTime
    /\ pc \in {"wait1", "place2", "wait2", "reconcile", "done"}
          => now >= ReleaseTime

\* a round-2 order has been sent by a run that entered the gate early
C10_Witness ==
    /\ \E i \in 1..Len(sent) : sent[i].Round = 2
    /\ run_started_at + 60 < ReleaseTime

(***************************************************************************)
(* Properties of the course of a run, read from its history.               *)
(***************************************************************************)
\* the positions of a run that ended, the failure left aside
Course ==
    IF Len(phases) > 0 /\ phases[Len(phases)] = "failed"
    THEN SubSeq(phases, 1, Len(phases) - 1)
    ELSE phases

IsPrefix(s, t) ==
    /\ Len(s) <= Len(t)
    /\ \A i \in 1..Len(s) : s[i] = t[i]

\* the run has been at position p
Reached(p) == \E i \in 1..Len(phases) : phases[i] = p

\* the run has been at position p and has left it
Left(p) == \E i \in 1..(Len(phases) - 1) : phases[i] = p

\* the sessions of adapter module name opened at position p, in order
SessionsAt(name, p) ==
    SelectSeq(sessions, LAMBDA x : x.App = name /\ x.Phase = p)

Round1Sent == \E i \in 1..Len(sent) : sent[i].Round = 1

Round2Sent == \E i \in 1..Len(sent) : sent[i].Round = 2

\* C11: a run entered with now + 20 s at or past the release time aborts
\* at the first check: it never gets past it, no order of either round is
\* sent, the broker holds nothing and no adapter session is opened.
C11_ExpiredStartSubmitsNothing ==
    run_started_at + StartProtect >= ReleaseTime
       => /\ pc \in {"start", "failed"}
          /\ sent = << >>
          /\ sessions = << >>
          /\ book = {}
          /\ app = "none"

\* a run with orders to send has aborted at the first check
C11_Witness ==
    /\ pc = "failed"
    /\ error = "AssertionError"
    /\ run_started_at + StartProtect >= ReleaseTime
    /\ Len(orders) > 0
    /\ sent = << >>

\* C12: a run fails on the deadline only at the first check: a failed run
\* has sent nothing and went from the first check straight to the failure.
C12_DeadlineAbortOnlyAtStart ==
    (pc = "failed" /\ error = "AssertionError")
       => (sent = << >> /\ phases = <<"start", "failed">>)

\* the order of the positions as the claim C13 has it: the round-1
\* completion wait, then the gate
ClaimedOrder ==
    <<"start", "separate", "place1", "sleep", "probe", "wait1", "gate",
      "place2", "wait2", "reconcile", "done">>

\* the order of the positions with the gate ahead of the round-1 wait
GateFirstOrder ==
    <<"start", "separate", "place1", "sleep", "probe", "gate", "wait1",
      "place2", "wait2", "reconcile", "done">>

C14_Round2AfterEmptySnapshot ==
    (Round2Sent \/ Reached("place2"))
       => \E k \in 1..Len(sessions) :
             /\ sessions[k].App = "request_openOrders"
             /\ sessions[k].Phase = "wait1"
             /\ sessions[k].Result = "empty"
             /\ \A j \in 1..Len(sessions) :
                   sessions[j].Phase = "place1" => j < k
             /\ \A j \in 1..Len(sessions) :
                   sessions[j].Phase = "place2" => k < j

\* both rounds have been sent, the round-1 wait having polled twice
C14_Witness ==
    /\ Round1Sent
    /\ Round2Sent
    /\ Len(SessionsAt("request_openOrders", "wait1")) = 2

\* C15: every order sent in round 1 carries Tif OPG and every order sent
\* in round 2 carries Tif DAY, and so do the lists handed to the adapter,
\* whatever Tif the rows of the caller's batch carry.
C15_TifByRound ==
    /\ \A i \in 1..Len(sent) :
          sent[i].Order.Tif = (IF sent[i].Round = 1 THEN "OPG" ELSE "DAY")
    /\ \A i \in 1..Len(firstRound_orderInfo_list) :
          firstRound_orderInfo_list[i].Tif = "OPG"
    /\ \A i \in 1..Len(secondRound_ordersInfo_list) :
          secondRound_ordersInfo_list[i].Tif = "DAY"

\* both rounds have been sent for a batch that came with another Tif
C15_Witness ==
    /\ Round1Sent
    /\ Round2Sent
    /\ \A i \in 1..Len(orders) : orders[i].Tif = "GTC"

Waits == {"wait1", "wait2"}

\* C16: a completion wait returns exactly at its first empty snapshot:
\* every poll before the last returned rows, a wait that has returned
\* ended on an empty snapshot, and a wait still going on has seen none.
C16_ReturnsAtFirstEmptySnapshot ==
    \A w \in Waits :
        LET p == SessionsAt("request_openOrders", w) IN
        /\ \A i \in 1..(Len(p) - 1) : p[i].Result = "rows"
        /\ Left(w) => (Len(p) >= 1 /\ p[Len(p)].Result = "empty")
        /\ (~Left(w) /\ Len(p) >= 1) => p[Len(p)].Result # "empty"

\* the round-1 wait has returned after exactly two polls: rows, then none
C16_Witness ==
    LET p == SessionsAt("request_openOrders", "wait1") IN
    /\ Left("wait1")
    /\ Len(p) = 2
    /\ p[1].Result = "rows"
    /\ p[2].Result = "empty"

\* a poll of the wait at hand can still see the book: one may be opened,
\* or one is open and has not yet read a book with orders in it
PollAhead ==
    \/ polls < MaxPolls
    \/ app = "connected"
    \/ app = "timer" /\ openOrder_record = {}

\* C17: a completion wait returns only when the broker's book is empty,
\* however many polls that takes, and once the book is empty (it then
\* stays empty) and the sessions return, the wait returns.
C17_PollerReturnsIffBookEmpties ==
    /\ [][(pc \in Waits /\ pc' # pc) => book = {}]_vars
    /\ \A w \in Waits : (pc = w /\ book = {} /\ PollAhead) ~> (pc # w)

\* the round-1 wait has returned, after a poll that saw working orders
C17_Witness ==
    /\ Left("wait1")
    /\ Len(SessionsAt("request_openOrders", "wait1")) >= 2
    /\ book = {}

\* C18: in a submission session the i-th order of the list is sent with
\* order id nextValidId + i (i from 0), one message and one record per
\* order, in the order of the list; main returns these records.
C18_SequentialOrderIds ==
    /\ [][(pc \in {"place1", "place2"} /\ app = "connected"
             /\ app' = "timer")
          => /\ Len(record') = Len(orderInfo_list)
             /\ Len(sent') = Len(sent) + Len(orderInfo_list)
             /\ \A i \in 1..Len(orderInfo_list) :
                   /\ record'[i].OrderId = nextValidId + (i - 1)
                   /\ Data(record'[i]) = Data(orderInfo_list[i])
                   /\ sent'[Len(sent) + i].Order = record'[i]
             /\ \A i, j \in 1..Len(record') :
                   i # j => record'[i].OrderId # record'[j].OrderId]_vars
    /\ [][(pc \in {"place1", "place2"} /\ app = "timer" /\ app' = "none")
          => /\ pc = "place1" => placed_orders_firstRound' = record
             /\ pc = "place2" => placed_orders_secondRound' = record]_vars

\* a session has returned the records of two orders
C18_Witness ==
    /\ Len(placed_orders_firstRound) = 2
    /\ placed_orders_firstRound[1].OrderId + 1
          = placed_orders_firstRound[2].OrderId

\* C19: a submission with an empty list returns an empty frame and opens
\* no session: every submission session was opened for a list with
\* orders in it, and a run whose round 2 is empty has none for round 2.
C19_EmptyListOpensNoSession ==
    /\ SessionsAt("place_order", "place1") # << >>
          => Len(firstRound_orderInfo_list) > 0
    /\ SessionsAt("place_order", "place2") # << >>
          => Len(secondRound_ordersInfo_list) > 0
    /\ (Left("place2") /\ Len(secondRound_ordersInfo_list) = 0)
          => (placed_orders_secondRound = << >> /\ ~Round2Sent)

\* round 2 was empty and the run went on to the round-2 wait
C19_Witness ==
    /\ Left("place2")
    /\ Round1Sent
    /\ Len(secondRound_ordersInfo_list) = 0
    /\ SessionsAt("place_order", "place2") = << >>

\* the order ids the two submissions of the run returned
PlacedOrderIds ==
    {placed_orders_firstRound[i].OrderId :
        i \in 1..Len(placed_orders_firstRound)}
      \cup {placed_orders_secondRound[i].OrderId :
               i \in 1..Len(placed_orders_secondRound)}

\* an execution of the run's client for an order the run placed
InScope(e) == e.ClientId = clientId /\ e.OrderId \in PlacedOrderIds

\* C20: the executions run() gets from filter_valid_callback are exactly
\* the fetched executions of the run's client whose order id one of the
\* two submissions returned: each retained row is such a row, and the rows
\* retained are all of them, once each and in the order fetched.
C20_ReconciliationScope ==
    pc = "done"
       => /\ \A i \in 1..Len(executions_filtered) :
                InScope(executions_filtered[i])
          /\ executions_filtered = SelectSeq(exec_list, InScope)

\* an execution of a round-2 order has been retained, round 1 not empty
C20_Witness ==
    /\ pc = "done"
    /\ Len(placed_orders_firstRound) > 0
    /\ \E i \in 1..Len(executions_filtered) :
          \E j \in 1..Len(placed_orders_secondRound) :
              executions_filtered[i].OrderId
                 = placed_orders_secondRound[j].OrderId

(***************************************************************************)
(* Properties of the reconciliation functions.                             *)
(***************************************************************************)
ExecIdsOf(df) == {df[i].ExecId : i \in 1..Len(df)}

RowsOf(df) == {df[i] : i \in 1..Len(df)}

\* filter_valid_callback has been called on its own
FilterCalled == Len(phases) >= 2 /\ phases[2] \in {"filtered", "KeyError"}

\* an execution the arguments of that call ask for
Matches(e) ==
    /\ e.ClientId = arg_valid_clientId[1]
    /\ \E k \in 1..Len(arg_valid_orderIds) : arg_valid_orderIds[k] = e.OrderId

\* C21: filter_valid_callback returns, whatever commissions there are,
\* and the commissions it returns are the rows of the input commissions
\* whose ExecId is the ExecId of a retained execution.
C21_CommissionsAreIntersection ==
    /\ pc # "KeyError"
    /\ Reached("filtered")
          => RowsOf(commissions_filtered) =
                {c \in RowsOf(commission_list) :
                    c.ExecId \in ExecIdsOf(executions_filtered)}

\* C22: when no fetched execution matches the client and the order ids,
\* filter_valid_callback returns two empty frames and
\* group_execution_and_commission_by_date, given them, an empty mapping;
\* main() returns on that mapping, and lastest_date_callback raises
\* ValueError on an empty mapping and on no other.
C22_NoMatchIsEmptyResult ==
    /\ (FilterCalled /\ \A i \in 1..Len(exec_list) : ~Matches(exec_list[i]))
          => /\ pc # "KeyError"
             /\ executions_filtered = << >>
             /\ commissions_filtered = << >>
             /\ Reached("grouped") => DOMAIN datewise_dict = {}
             /\ Left("grouped") => pc \in {"main_returned", "ValueError"}
    /\ pc = "ValueError" => DOMAIN datewise_dict = {}
    /\ (Left("grouped") /\ DOMAIN datewise_dict = {})
          => pc \in {"main_returned", "ValueError"}

\* executions were fetched, none matched, and main() has returned
C22_Witness ==
    /\ FilterCalled
    /\ exec_list # << >>
    /\ \A i \in 1..Len(exec_list) : ~Matches(exec_list[i])
    /\ pc = "main_returned"
    /\ DOMAIN datewise_dict = {}

\* the frames group_execution_and_commission_by_date was called with
GroupExecutions ==
    IF FilterCalled THEN executions_filtered ELSE exec_list

GroupCommissions ==
    IF FilterCalled THEN commissions_filtered ELSE commission_list

\* C23: every row of a bucket is a row of the input whose ExecId occurs
\* in both input frames, the executions and the commissions of a bucket
\* have the same ExecIds, and without a client filter every execution
\* that has a commission is in the bucket of its date.
C23_InnerJoinOnExecId ==
    Reached("grouped")
       => /\ \A d \in DOMAIN datewise_dict :
                LET both == ExecIdsOf(GroupExecutions)
                               \cap ExecIdsOf(GroupCommissions)
                IN /\ RowsOf(datewise_dict[d][1]) \subseteq
                         RowsOf(GroupExecutions)
                   /\ RowsOf(datewise_dict[d][2]) \subseteq
                         RowsOf(GroupCommissions)
                   /\ ExecIdsOf(datewise_dict[d][1]) \subseteq both
                   /\ ExecIdsOf(datewise_dict[d][1]) =
                         ExecIdsOf(datewise_dict[d][2])
          /\ arg_valid_clientId = << >>
                => \A e \in RowsOf(GroupExecutions) :
                      e.ExecId \in ExecIdsOf(GroupCommissions)
                         => \E d \in DOMAIN datewise_dict :
                               e \in RowsOf(datewise_dict[d][1])

\* a bucket was made of frames in which an execution had no commission
C23_Witness ==
    /\ Reached("grouped")
    /\ ~FilterCalled
    /\ \E d \in DOMAIN datewise_dict : datewise_dict[d][1] # << >>
    /\ ExecIdsOf(exec_list) \ ExecIdsOf(commission_list) # {}

\* C24: with a valid_clientId every execution of every bucket has that
\* ClientId and every commission of a bucket has the ExecId of an
\* execution of the bucket.
C24_BucketsOfOwnerOnly ==
    (Reached("grouped") /\ arg_valid_clientId # << >>)
       => \A d \in DOMAIN datewise_dict :
             /\ \A e \in RowsOf(datewise_dict[d][1]) :
                   e.ClientId = arg_valid_clientId[1]
             /\ \A c \in RowsOf(datewise_dict[d][2]) :
                   \E e \in RowsOf(datewise_dict[d][1]) :
                       /\ e.ExecId = c.ExecId
                       /\ e.ClientId = arg_valid_clientId[1]

\* a bucket with rows was made for one client from the joined rows of two
C24_Witness ==
    /\ Reached("grouped")
    /\ ~FilterCalled
    /\ arg_valid_clientId # << >>
    /\ \E d \in DOMAIN datewise_dict : datewise_dict[d][1] # << >>
    /\ \E e \in RowsOf(exec_list) :
          /\ e.ClientId # arg_valid_clientId[1]
          /\ e.ExecId \in ExecIdsOf(commission_list)

\* C25: lastest_date_callback raises ValueError only on a mapping without
\* keys, and on a mapping with keys it returns the bucket of the greatest.
C25_LatestBucketOrValueError ==
    /\ pc = "ValueError" => DOMAIN datewise_dict = {}
    /\ pc = "lastest"
          => /\ DOMAIN datewise_dict # {}
             /\ \E d \in DOMAIN datewise_dict :
                   /\ \A other \in DOMAIN datewise_dict : other <= d
                   /\ main_executions = datewise_dict[d][1]
                   /\ main_commissions = datewise_dict[d][2]

\* the bucket of the later of two dates has been returned
C25_Witness ==
    /\ pc = "lastest"
    /\ Cardinality(DOMAIN datewise_dict) = 2
    /\ main_executions # << >>

\* the deduplication was applied to a bucket of the mapping
BucketDeduplicated ==
    \/ pc = "main_deduplicated"
    \/ pc = "deduplicated" /\ Reached("lastest")

\* that bucket
LatestBucket ==
    datewise_dict[CHOOSE d \in DOMAIN datewise_dict :
                     \A other \in DOMAIN datewise_dict : other <= d]

\* out is df without the rows that a later row of df repeats the ExecId of
KeepsLastPerExecId(df, out) ==
    /\ \A i, j \in 1..Len(out) : i # j => out[i].ExecId # out[j].ExecId
    /\ ExecIdsOf(out) = ExecIdsOf(df)
    /\ IsSubseq(out, df)
    /\ \A r \in RowsOf(out) :
          \E i \in 1..Len(df) :
              /\ df[i] = r
              /\ \A j \in (i + 1)..Len(df) : df[j].ExecId # r.ExecId

\* C26: after the deduplication no ExecId occurs twice in the executions
\* or in the commissions, the row kept for an ExecId is the last of the
\* input with that ExecId, and the executions and the commissions of a
\* deduplicated bucket have the same ExecIds.
C26_LastRecordPerExecId ==
    /\ BucketDeduplicated
          => /\ KeepsLastPerExecId(LatestBucket[1], main_executions)
             /\ KeepsLastPerExecId(LatestBucket[2], main_commissions)
             /\ ExecIdsOf(main_executions) = ExecIdsOf(main_commissions)
    /\ (pc = "deduplicated" /\ ~Reached("lastest"))
          => /\ KeepsLastPerExecId(exec_list, main_executions)
             /\ KeepsLastPerExecId(commission_list, main_commissions)

\* main() has deduplicated a bucket in which an ExecId came twice
C26_Witness ==
    /\ pc = "main_deduplicated"
    /\ Len(main_executions) < Len(LatestBucket[1])
    /\ Len(main_commissions) < Len(LatestBucket[2])

\* C27: the deduplication applied to deduplicated frames changes nothing.
C27_DeduplicationIdempotent ==
    [][(pc = "deduplicated" /\ pc' = "deduplicated_again")
          => /\ main_executions' = main_executions
             /\ main_commissions' = main_commissions]_vars

\* frames in which an ExecId came twice have been deduplicated twice
C27_Witness ==
    /\ pc = "deduplicated_again"
    /\ \/ Len(main_executions) < Len(exec_list)
       \/ Reached("lastest") /\ Len(main_executions) < Len(LatestBucket[1])

\* no ExecId occurs in two rows of df
NoDuplicateExecId(df) ==
    \A i, j \in 1..Len(df) : i # j => df[i].ExecId # df[j].ExecId

\* the lists the callbacks of the sessions append to
AccumulatedLists ==
    <<record, openOrder_record, exec_list, commission_list>>

C32_NoSleepAfterEmptySnapshot ==
    [][(pc \in {"wait1", "wait2"} /\ pc' # pc /\ app' = "none")
          => \E d \in SessionSecsAt(pc) : now' = now + d]_vars

\* C38: while the broker holds the order of another client the round-1
\* wait does not return, so round 2 is not sent and the run does not go
\* on; no completion wait returns while it is held.
C38_ForeignOrderKeepsPolling ==
    /\ [](ForeignOrder \in book
             => /\ ~Left("wait1")
                /\ ~Round2Sent
                /\ pc \notin {"place2", "wait2", "reconcile", "done"})
    /\ [][(pc \in {"wait1", "wait2"} /\ pc' # pc)
            => /\ openOrder_record = {}
               /\ ForeignOrder \notin book]_vars

\* round 1 is filled and the second poll of the round-1 wait begins, the
\* first having returned the foreign order alone
C38_Witness ==
    /\ pc = "wait1"
    /\ book = {ForeignOrder}
    /\ Round1Sent
    /\ polls >= 1
    /\ app = "none"
    /\ sessions[Len(sessions)].Phase = "wait1"
    /\ sessions[Len(sessions)].Result = "rows"

\* the placeOrder messages of the run that carry the data d
SentCount(d) ==
    Cardinality({i \in 1..Len(sent) : Data(sent[i].Order) = d})

\* C40: in a run that reaches DONE every order of the batch has been sent
\* exactly once, also when nextValidId is delivered twice in a session:
\* each row of the batch has as many placeOrder messages as the batch has
\* copies of it, and each round has one submission session at most.
C40_EachOrderSentOnce ==
    pc = "done"
       => /\ \A i \in 1..Len(orders) :
                SentCount(Data(orders[i])) = Count(orders, Data(orders[i]))
          /\ Len(sent) = Len(orders)
          /\ Len(SessionsAt("place_order", "place1")) <= 1
          /\ Len(SessionsAt("place_order", "place2")) <= 1

\* C37: a run that has passed the first deadline check, whose sessions all
\* get their terminal callback and whose orders all leave the book in the
\* end, reaches DONE, however long the sessions and the fills take (a wait
\* followed up to its last modelled poll counts as still going on).
C37_PassedCheckReachesDone ==
    (pc = "separate") ~> (pc = "done" \/ (pc \in Waits /\ ~PollAhead))

\* C33: the pair filter_valid_callback gives run() to save and return, and
\* the pair main() is left with, have no ExecId in two rows.
C33_EveryPairDeduplicated ==
    /\ Reached("filtered")
          => /\ NoDuplicateExecId(executions_filtered)
             /\ NoDuplicateExecId(commissions_filtered)
    /\ pc \in {"main_returned", "main_deduplicated"}
          => /\ NoDuplicateExecId(main_executions)
             /\ NoDuplicateExecId(main_commissions)

\* C36: with a valid_clientId no bucket of the mapping is empty, so the
\* bucket lastest_date_callback returns has an execution of that client.
C36_NoEmptyBucket ==
    /\ (Reached("grouped") /\ arg_valid_clientId # << >>)
          => \A d \in DOMAIN datewise_dict :
                /\ datewise_dict[d][1] # << >>
                /\ datewise_dict[d][2] # << >>
    /\ (pc = "lastest" /\ arg_valid_clientId # << >>)
          => \E e \in RowsOf(main_executions) :
                e.ClientId = arg_valid_clientId[1]

(***************************************************************************)
(* Properties of the loggers.                                              *)
(***************************************************************************)
\* C34: when the close_logger of the only session made so far has
\* returned, the logger has no handler left.
C34_NoHandlerLeft ==
    (stop_thread = <<"returned">>) => root_handlers = << >>

\* C39: the stop() of a session closes no handler that a later session
\* attached to the root logger.
C39_StopSparesLaterSessions ==
    \A c \in closed_handlers : c.Handler.Session <= c.By

\* C35: the accounts requested are, in order, the first accounts of the
\* managed list, each once, and a disconnect timer has been started only
\* at the accountDownloadEnd of the last account of the list.
C35_AccountsInListOrder ==
    /\ IsPrefix(requested, accountsList)
    /\ \A i \in 1..Len(timers) :
          /\ timers[i] = accountsList[Len(accountsList)]
          /\ timers[i] \in ended
    /\ account_app \in {"timer", "none"} => timers # << >>
    /\ ended \subseteq {requested[i] : i \in 1..Len(requested)}

\* the second of two accounts was requested before the download of the
\* first had ended, and the timer is started
C35_Witness ==
    /\ account_app = "timer"
    /\ requested = <<"U1", "U2">>
    /\ "U1" \notin ended

(***************************************************************************)
(* Properties of the adapter sessions.                                     *)
(***************************************************************************)
\* a session of the history that has not disconnected
Connected(s) == s.Result \in {"running", "error"}

\* C28: of the sessions a run has opened only the last can be connected,
\* so a session is opened only when every earlier one has disconnected.
C28_OneSessionAtATime ==
    /\ \A i \in 1..Len(sessions) :
          Connected(sessions[i]) => (i = Len(sessions) /\ app # "none")
    /\ app # "none"
          => (Len(sessions) >= 1 /\ Connected(sessions[Len(sessions)]))

\* the execution fetch is connected after submissions and polls
C28_Witness ==
    /\ app # "none"
    /\ sessions[Len(sessions)].App = "request_callback"
    /\ \E i, j \in 1..Len(sessions) :
          /\ i < j
          /\ sessions[i].App = "place_order"
          /\ sessions[j].App = "request_openOrders"

\* C29: a session whose error callback has been called does not return
\* to run(): the run fails.
C29_AdapterErrorAbortsRun ==
    [][(/\ app # "none"
        /\ app' = "none"
        /\ sessions[Len(sessions)].Result = "error")
          => pc' = "failed"]_vars

\* C30: a session disconnects only by stop() called by the timer of its
\* terminal callback, and a session whose terminal callback is never
\* called stays connected with run() at the statement that opened it.
C30_DisconnectOnlyByTimer ==
    /\ [][(app # "none" /\ app' = "none") => app = "timer"]_vars
    /\ [][(app = "connected" /\ app' # "connected")
            => app' \in {"timer", "stalled"}]_vars
    /\ [][app = "stalled"
            => (/\ app' = "stalled"
                /\ pc' = pc
                /\ phases' = phases
                /\ sessions' = sessions)]_vars

\* a poll of the round-1 wait whose openOrderEnd never comes
C30_Witness ==
    /\ app = "stalled"
    /\ pc = "wait1"
    /\ sessions[Len(sessions)].App = "request_openOrders"

====
